---- MODULE Spec2Model ----
(***************************************************************************)
(* State-machine model of bioformats/omeroreader.py (OmeroImageReader).    *)
(*                                                                         *)
(* The reader is single threaded and synchronous: one read() runs at a     *)
(* time, and every remote call (joinSession, createRawPixelsStore,         *)
(* setPixelsId, getPlane, getTile, close, closeSession) is one step whose  *)
(* outcome the remote server decides.  `pc` is the position inside read(). *)
(*                                                                         *)
(* Python's None is encoded as the integer -1 for optional integers; the   *)
(* inputs drawn for c, z, t and index are None or non-negative.            *)
(***************************************************************************)
EXTENDS Integers, Sequences, FiniteSets, TLC

(* ------------------------------ bounds --------------------------------- *)
\* largest number of channels of the remote image
MaxC == 2
\* number of z sections of the remote image
MaxZ == 1
\* number of time points of the remote image
MaxT == 1
\* cap of the counters of client creations and joinSession calls
MaxCalls == 2

\* width and height of the remote image (pixels.getSizeX / getSizeY)
ImgW == 2
ImgH == 1

None == -1

(* --------------------------- pixel types ------------------------------- *)

\* pixelRange(byte_width, signed), lines 40-45
pixelRange(byte_width, signed) ==
    LET max_value == 2 ^ (8 * byte_width)
    IN  IF signed
        THEN << -(max_value \div 2), (max_value \div 2) - 1 >>
        ELSE << 0, max_value - 1 >>

\* the keys of PIXEL_TYPES, lines 51-59
PixelTypeNames == {"int8", "uint8", "int16", "uint16", "int32", "uint32",
                   "float", "double"}

\* the names the remote image can declare as its pixel type; "bit" is a
\* pixel type of the server that PIXEL_TYPES does not list
ImagePixelTypes == {"int8", "uint16", "bit"}

\* keys of PIXEL_TYPES that the model's images use
SupportedTypes == {"int8", "uint8", "int16", "uint16"}

\* PIXEL_TYPES, lines 51-59: struct format character, byte width of that
\* format, signedness of that format, and the registered range
PIXEL_TYPES(name) ==
    CASE name = "int8"   -> [fmt |-> "b", bw |-> 1, signed |-> TRUE,
                             range |-> pixelRange(1, TRUE)]
      [] name = "uint8"  -> [fmt |-> "B", bw |-> 1, signed |-> FALSE,
                             range |-> pixelRange(1, FALSE)]
      [] name = "int16"  -> [fmt |-> "h", bw |-> 2, signed |-> TRUE,
                             range |-> pixelRange(2, TRUE)]
      [] name = "uint16" -> [fmt |-> "H", bw |-> 2, signed |-> FALSE,
                             range |-> pixelRange(2, FALSE)]

(* ------------- pixelRange on integers of unbounded width --------------- *)

\* Python integers have no width: 2 ** 32 is the number 4294967296.  A wide
\* number is a sign and two digits in base 65536, the high digit unbounded.
Base == 65536

WideNum(neg, hi, lo) == [neg |-> neg, hi |-> hi, lo |-> lo]

\* 2 ** n, line 41
WidePow2(n) == IF n < 16 THEN WideNum(FALSE, 0, 2 ^ n)
                         ELSE WideNum(FALSE, 2 ^ (n - 16), 0)

\* w / 2 of a non-negative w, lines 43: exact for the even numbers the code
\* divides, so floor division and true division agree
WideHalf(w) == WideNum(FALSE, w.hi \div 2,
                       (w.lo + (w.hi % 2) * Base) \div 2)

\* w - 1 of a positive w, lines 43 and 45
WidePred(w) == IF w.lo > 0 THEN WideNum(FALSE, w.hi, w.lo - 1)
                           ELSE WideNum(FALSE, w.hi - 1, Base - 1)

\* - w of a positive w, line 43
WideNeg(w) == WideNum(TRUE, w.hi, w.lo)

\* variant of lines 40-45 whose unsigned range ends at max_value
pixelRangeWide_inclusive(byte_width, signed) ==
    LET max_value == WidePow2(8 * byte_width)
    IN  IF signed
        THEN << WideNeg(WideHalf(max_value)), WidePred(WideHalf(max_value)) >>
        ELSE << WideNum(FALSE, 0, 0), max_value >>

\* pixelRange(byte_width, signed), lines 40-45, on wide numbers
pixelRangeWide(byte_width, signed) ==
    LET max_value == WidePow2(8 * byte_width)
    IN  IF signed
        THEN << WideNeg(WideHalf(max_value)), WidePred(WideHalf(max_value)) >>
        ELSE << WideNum(FALSE, 0, 0), WidePred(max_value) >>

\* PIXEL_TYPES, lines 51-59, all eight entries: byte width and signedness
\* of the numpy type, whether the range is computed, and the range
PIXEL_TYPES_wide(name) ==
    CASE name = "int8"   -> [bw |-> 1, signed |-> TRUE, integer |-> TRUE,
                             range |-> pixelRangeWide(1, TRUE)]
      [] name = "uint8"  -> [bw |-> 1, signed |-> FALSE, integer |-> TRUE,
                             range |-> pixelRangeWide(1, FALSE)]
      [] name = "int16"  -> [bw |-> 2, signed |-> TRUE, integer |-> TRUE,
                             range |-> pixelRangeWide(2, TRUE)]
      [] name = "uint16" -> [bw |-> 2, signed |-> FALSE, integer |-> TRUE,
                             range |-> pixelRangeWide(2, FALSE)]
      [] name = "int32"  -> [bw |-> 4, signed |-> TRUE, integer |-> TRUE,
                             range |-> pixelRangeWide(4, TRUE)]
      [] name = "uint32" -> [bw |-> 4, signed |-> FALSE, integer |-> TRUE,
                             range |-> pixelRangeWide(4, FALSE)]
      [] name = "float"  -> [bw |-> 4, signed |-> TRUE, integer |-> FALSE,
                             range |-> << WideNum(FALSE, 0, 0),
                                          WideNum(FALSE, 0, 1) >>]
      [] name = "double" -> [bw |-> 8, signed |-> TRUE, integer |-> FALSE,
                             range |-> << WideNum(FALSE, 0, 0),
                                          WideNum(FALSE, 0, 1) >>]

(* ----------------------- raw buffers and decoding ---------------------- *)

\* big-endian encoding of the sample v in bw bytes (two's complement)
RECURSIVE BigEndian(_, _)
BigEndian(u, bw) ==
    IF bw = 0 THEN << >>
    ELSE Append(BigEndian(u \div 256, bw - 1), u % 256)

PackSample(v, bw) == BigEndian(v % (2 ^ (8 * bw)), bw)

RECURSIVE PackAll(_, _)
PackAll(samples, bw) ==
    IF samples = << >> THEN << >>
    ELSE PackSample(Head(samples), bw) \o PackAll(Tail(samples), bw)

\* the sample the server stores at linear position k of plane (z, c, t);
\* it covers both ends of the pixel type's range
ServerSample(ptype, z, c, t, k) ==
    LET r == PIXEL_TYPES(ptype).range
        pool == << r[2], r[1], 0, 1, r[2] - 1, r[1] + 1 >>
    IN  pool[((3 * c + 2 * z + t + k) % 6) + 1]

\* the bytes the server holds for the w x h window at (x, y) of the plane
ServerBuffer(ptype, z, c, t, x, y, w, h) ==
    PackAll([k \in 1..(w * h) |->
                ServerSample(ptype, z, c, t,
                             (y + ((k - 1) \div w)) * ImgW + x + ((k - 1) % w))],
            PIXEL_TYPES(ptype).bw)

\* value of the big-endian byte string bs as an unsigned integer
RECURSIVE BytesValue(_)
BytesValue(bs) ==
    IF bs = << >> THEN 0
    ELSE 256 * BytesValue(SubSeq(bs, 1, Len(bs) - 1)) + bs[Len(bs)]

\* one scalar of struct.unpack('>...'), line 165
UnpackSample(bs, signed) ==
    LET u == BytesValue(bs)
        m == 2 ^ (8 * Len(bs))
    IN  IF signed /\ u >= m \div 2 THEN u - m ELSE u

\* struct.unpack('>%d%s' % (count, fmt), raw) succeeds only on an exact
\* length, lines 163-165
UnpackOk(raw, count, bw) == Len(raw) = count * bw

unpack(raw, count, bw, signed) ==
    [k \in 1..count |->
        UnpackSample(SubSeq(raw, (k - 1) * bw + 1, k * bw), signed)]

\* numpy.array(converted_plane, numpy_type); plane.resize(sizeY, sizeX):
\* row-major, row r holds samples r*sizeX .. r*sizeX + sizeX - 1, lines 166-167
resize(flat, sizeY, sizeX) ==
    [r \in 1..sizeY |-> [q \in 1..sizeX |-> flat[(r - 1) * sizeX + q]]]

\* numpy.dstack(planes): element [row][col] is the tuple of the planes'
\* samples, plane k at position k of the trailing axis, line 170
dstack(planes) ==
    IF planes = << >> THEN << >>
    ELSE [r \in 1..Len(planes[1]) |->
            [q \in 1..Len(planes[1][1]) |->
                [k \in 1..Len(planes) |-> planes[k][r][q]]]]

(* ------------------------------- state --------------------------------- *)

VARIABLES
    py3,                \* the interpreter is Python 3 (None >= int raises)
    img,                \* the image on the server: sizes and pixel type
    client,             \* self.client is not None
    session,            \* self.session is not None
    container_service,  \* self.container_service is not None
    omero_image,        \* self.omero_image is not None
    pixels,             \* self.pixels is not None
    width, height,      \* self.width, self.height (None until connected)
    sessionClosed,      \* closeSession has reached the server
    clientsCreated,     \* omero.client(...) objects created so far
    joinCalls,          \* joinSession calls issued so far
    pc,                 \* position inside read(); "idle" between calls,
                        \* "done" when an operation has just ended
    args,               \* arguments of the current / last read()
    c,                  \* read()'s c after parameter resolution
    tile,               \* read()'s tile
    channels,           \* read_planes' channels
    planes,             \* read_planes' planes
    store,              \* raw_pixels_store of this read(): none/created/ready/closed
    storesCreated,      \* raw pixels stores acquired by this read()
    storesClosed,       \* close() calls on raw pixels stores in this read()
    numpy_image,        \* what read_planes returned
    log,                \* remote calls of the current / last operation
    lastOp,             \* the operation that ran last
    result              \* how the last operation ended

readerVars == << client, session, container_service, omero_image, pixels,
                 width, height >>
remoteVars == << sessionClosed, clientsCreated, joinCalls >>
callVars   == << args, c, tile, channels, planes, store, storesCreated,
                 storesClosed, numpy_image >>
vars == << py3, img, readerVars, remoteVars, pc, callVars, log, lastOp, result >>

Min(a, b) == IF a < b THEN a ELSE b

\* an array value: dims = 0 stands for None
NoneImage == [dims |-> 0, data |-> << >>]

\* outcomes of an operation; coord is the (z, c, t) and named the axis,
\* value and size that a raised exception carries (the exceptions of this
\* file carry a fixed text only)
NoResult == [kind |-> "none", err |-> "", coord |-> << >>, named |-> << >>,
             image |-> NoneImage, hasMax |-> FALSE, max |-> 0]
Raise(e) == [NoResult EXCEPT !.kind = "raise", !.err = e]
\* variant of lines 236-238 that returns the image alone
Return_alone(image, hasMax, max) ==
    [NoResult EXCEPT !.kind = "return", !.image = image]

Return(image, hasMax, max) ==
    [NoResult EXCEPT !.kind = "return", !.image = image,
                     !.hasMax = hasMax, !.max = max]

\* an entry of the log of remote calls
\* (len is the length of the buffer a fetch returned, None otherwise)
Call(op, ok) == [op |-> op, z |-> None, c |-> None, t |-> None,
                 region |-> << >>, ok |-> ok, len |-> None]
Fetch(op, z, cc, t, region, ok, len) ==
    [op |-> op, z |-> z, c |-> cc, t |-> t, region |-> region, ok |-> ok,
     len |-> len]

NoArgs == [c |-> None, z |-> 0, t |-> 0, index |-> None, rescale |-> TRUE,
           wants_max_intensity |-> FALSE, XYWH |-> << >>]

\* __init__, lines 62-85, against some image on the server
Init ==
    /\ py3 \in BOOLEAN
    /\ img \in [size_c : 1..MaxC, size_z : {MaxZ}, size_t : {MaxT},
                ptype : ImagePixelTypes]
    /\ client = FALSE
    /\ session = FALSE
    /\ container_service = FALSE
    /\ omero_image = FALSE
    /\ pixels = FALSE
    /\ width = None
    /\ height = None
    /\ sessionClosed = FALSE
    /\ clientsCreated = 0
    /\ joinCalls = 0
    /\ pc = "idle"
    /\ args = NoArgs
    /\ c = None
    /\ tile = << >>
    /\ channels = << >>
    /\ planes = << >>
    /\ store = "none"
    /\ storesCreated = 0
    /\ storesClosed = 0
    /\ numpy_image = NoneImage
    /\ log = << >>
    /\ lastOp = "none"
    /\ result = NoResult

\* an operation has returned or raised: its outcome is with the caller and
\* the locals of read() and read_planes() are gone
Continue ==
    /\ pc = "done"
    /\ pc' = "idle"
    /\ args' = NoArgs
    /\ c' = None
    /\ tile' = << >>
    /\ channels' = << >>
    /\ planes' = << >>
    /\ store' = "none"
    /\ storesCreated' = 0
    /\ storesClosed' = 0
    /\ numpy_image' = NoneImage
    /\ log' = << >>
    /\ lastOp' = "none"
    /\ result' = NoResult
    /\ UNCHANGED << py3, img, readerVars, remoteVars >>

(* ------------------------- close and scope exit ------------------------ *)

\* variant of close() that tests self.session, not self.client
close_ifSession ==
    /\ pc = "idle"
    /\ lastOp' = "close"
    /\ result' = Return(NoneImage, FALSE, 0)
    /\ IF session
       THEN /\ sessionClosed' = TRUE
            /\ log' = << Call("closeSession", TRUE) >>
       ELSE /\ UNCHANGED sessionClosed
            /\ log' = << >>
    /\ pc' = "done"
    /\ UNCHANGED << py3, img, readerVars, clientsCreated, joinCalls, callVars >>

\* close(), lines 97-105
close ==
    /\ pc = "idle"
    /\ lastOp' = "close"
    /\ result' = Return(NoneImage, FALSE, 0)
    /\ IF client
       THEN /\ sessionClosed' = TRUE
            /\ log' = << Call("closeSession", TRUE) >>
       ELSE /\ UNCHANGED sessionClosed
            /\ log' = << >>
    /\ pc' = "done"
    /\ UNCHANGED << py3, img, readerVars, clientsCreated, joinCalls, callVars >>

\* __enter__, lines 87-90
__enter__ ==
    /\ pc = "idle"
    /\ lastOp' = "enter"
    /\ result' = Return(NoneImage, FALSE, 0)
    /\ log' = << >>
    /\ pc' = "done"
    /\ UNCHANGED << py3, img, readerVars, remoteVars, callVars >>

\* leaving a with block: the interpreter calls __exit__(exc_type, exc_value,
\* traceback); __exit__, lines 92-95, takes self only, so the call raises
\* TypeError before its body runs
__exit__ ==
    /\ pc = "idle"
    /\ lastOp' = "exit"
    /\ result' = Raise("TypeError")
    /\ log' = << >>
    /\ pc' = "done"
    /\ UNCHANGED << py3, img, readerVars, remoteVars, callVars >>

(* ------------------------------- read() -------------------------------- *)

\* what the server can answer to init_reader's calls: the client cannot be
\* created, joinSession fails, getContainerService fails, getImages fails
\* or finds no image, or everything succeeds
InitOutcomes == {"client_fail", "join_fail", "service_fail", "image_fail", "ok"}

\* the reader's fields as a record
Fields == [client |-> client, session |-> session,
           container_service |-> container_service,
           omero_image |-> omero_image, pixels |-> pixels,
           width |-> width, height |-> height,
           created |-> 0, joined |-> 0, calls |-> << >>, raised |-> ""]

\* variant of the test of lines 118-119 that looks at the session
AlreadyInitialised_session == session

\* the test of lines 118-119
AlreadyInitialised == client

\* init_reader, lines 107-139, when the server answers o: the fields after
\* it, the clients created and joins issued, the calls made, the exception
init_reader(o) ==
    IF AlreadyInitialised THEN Fields                        \* lines 118-119
    ELSE IF o = "client_fail"                                \* line 120
    THEN [Fields EXCEPT !.calls = << Call("omero.client", FALSE) >>,
                        !.raised = "ClientError"]
    ELSE IF o = "join_fail"                                  \* lines 123, 125-128
    THEN [Fields EXCEPT !.client = TRUE, !.created = 1, !.joined = 1,
                        !.calls = << Call("omero.client", TRUE),
                                     Call("joinSession", FALSE) >>,
                        !.raised = "Couldn't connect to OMERO server"]
    ELSE IF o = "service_fail"                               \* lines 124-128
    THEN [Fields EXCEPT !.client = TRUE, !.session = TRUE,
                        !.created = 1, !.joined = 1,
                        !.calls = << Call("omero.client", TRUE),
                                     Call("joinSession", TRUE),
                                     Call("getContainerService", FALSE) >>,
                        !.raised = "Couldn't connect to OMERO server"]
    ELSE IF o = "image_fail"                                 \* lines 129-136
    THEN [Fields EXCEPT !.client = TRUE, !.session = TRUE,
                        !.container_service = TRUE,
                        !.created = 1, !.joined = 1,
                        !.calls = << Call("omero.client", TRUE),
                                     Call("joinSession", TRUE),
                                     Call("getContainerService", TRUE),
                                     Call("getImages", FALSE) >>,
                        !.raised = "Image Id not found on the server"]
    ELSE [Fields EXCEPT !.client = TRUE, !.session = TRUE,   \* lines 120-139
                        !.container_service = TRUE,
                        !.omero_image = TRUE, !.pixels = TRUE,
                        !.width = ImgW, !.height = ImgH,
                        !.created = 1, !.joined = 1,
                        !.calls = << Call("omero.client", TRUE),
                                     Call("joinSession", TRUE),
                                     Call("getContainerService", TRUE),
                                     Call("getImages", TRUE) >>]

\* variant of lines 197-198 that leaves index unused
ResolveC_ignoreIndex(cc, index) == cc

\* c after parameter resolution, lines 197-198
ResolveC(cc, index) == IF cc = None /\ index # None THEN index ELSE cc

\* variant of lines 208-219 in which a check that passes clears the message
ValidationMessage_reset(cc, z, t) ==
    IF z >= img.size_z THEN << "Z", z, img.size_z >> ELSE << >>

\* lines 208-219: the message left by the three checks, << >> for None; each
\* later check overwrites the message of an earlier one.  None >= n is
\* False under Python 2 (the case of Python 3 is decided before this is used)
ValidationMessage(cc, z, t) ==
    LET m1 == IF t >= img.size_t THEN << "T", t, img.size_t >> ELSE << >>
        m2 == IF cc # None /\ cc >= img.size_c
              THEN << "C", cc, img.size_c >> ELSE m1
        m3 == IF z >= img.size_z THEN << "Z", z, img.size_z >> ELSE m2
    IN  m3

\* line 212 under Python 3: None >= int raises TypeError
CompareRaises(cc) == py3 /\ cc = None

\* the regions a caller passes as XYWH: None (<< >>), tiles of the image,
\* and a tuple that is not of length 4
Tiles == {<< 1, 0, 1, 1 >>}
BadXYWH == << 0, 0, 1 >>
Regions == {<< >>} \cup Tiles \cup {BadXYWH}

\* the exception read() raises before it calls read_planes, "" for none;
\* f is the reader after line 206
ReadRaises(f, cc, z, t, XYWH) ==
    IF f.raised # "" THEN f.raised                           \* line 206
    ELSE IF ~f.pixels THEN "AttributeError: getSizeT"        \* line 208
    ELSE IF CompareRaises(cc) THEN "TypeError"               \* line 212
    ELSE IF Len(ValidationMessage(cc, z, t)) > 0             \* lines 220-221
    THEN "Couldn't retrieve a plane from OMERO image."
    ELSE IF Len(XYWH) \notin {0, 4} THEN "AssertionError"    \* lines 223-225
    ELSE ""

\* read(), lines 178-227, up to the call of read_planes
read(c0, z, t, index, rescale, wants_max_intensity, XYWH, o) ==
    LET cc == ResolveC(c0, index)
        f  == IF ~session THEN init_reader(o) ELSE Fields    \* lines 205-206
        e  == ReadRaises(f, cc, z, t, XYWH)
    IN  /\ pc = "idle"
        /\ lastOp' = "read"
        /\ args' = [c |-> c0, z |-> z, t |-> t, index |-> index,
                    rescale |-> rescale,
                    wants_max_intensity |-> wants_max_intensity,
                    XYWH |-> XYWH]
        /\ c' = cc
        /\ client' = f.client
        /\ session' = f.session
        /\ container_service' = f.container_service
        /\ omero_image' = f.omero_image
        /\ pixels' = f.pixels
        /\ width' = f.width
        /\ height' = f.height
        /\ clientsCreated' = Min(clientsCreated + f.created, MaxCalls)
        /\ joinCalls' = Min(joinCalls + f.joined, MaxCalls)
        /\ log' = f.calls
        /\ channels' = << >>
        /\ planes' = << >>
        /\ store' = "none"
        /\ storesCreated' = 0
        /\ storesClosed' = 0
        /\ numpy_image' = NoneImage
        /\ IF e # ""
           THEN /\ result' = Raise(e)
                /\ tile' = << >>
                /\ pc' = "done"
           ELSE /\ result' = NoResult
                /\ tile' = XYWH                              \* lines 222-226
                /\ pc' = "read_planes"
        /\ UNCHANGED << py3, img, sessionClosed >>

(* ----------------------------- read_planes ----------------------------- *)

\* channels, lines 142-146
Channels(cc) == IF cc = None THEN [k \in 1..img.size_c |-> k - 1] ELSE << cc >>

\* variant of lines 147-149 that acquires the store before it looks the
\* pixel type up
createRawPixelsStore_lookupLater ==
    /\ pc = "read_planes"
    /\ channels' = Channels(c)
    /\ \E ok \in (IF sessionClosed THEN {FALSE} ELSE BOOLEAN) :
         /\ log' = Append(log, Call("createRawPixelsStore", ok))
         /\ IF ok
            THEN /\ store' = "created"
                 /\ storesCreated' = storesCreated + 1
                 /\ pc' = IF img.ptype \notin SupportedTypes
                          THEN "finally" ELSE "setPixelsId"
                 /\ UNCHANGED result
            ELSE /\ result' = Raise("RemoteError")
                 /\ pc' = "done"
                 /\ UNCHANGED << store, storesCreated >>
    /\ UNCHANGED << py3, img, readerVars, remoteVars, args, c, tile, planes,
                    storesClosed, numpy_image, lastOp >>

\* read_planes, lines 141-149: the channel list, the pixel type lookup and
\* the acquisition of the raw pixels store; a closed session creates none
createRawPixelsStore ==
    /\ pc = "read_planes"
    /\ channels' = Channels(c)
    /\ IF img.ptype \notin SupportedTypes
       THEN /\ result' = Raise("KeyError")                   \* line 148
            /\ pc' = "done"
            /\ UNCHANGED << store, storesCreated, log >>
       ELSE \E ok \in (IF sessionClosed THEN {FALSE} ELSE BOOLEAN) :
              /\ log' = Append(log, Call("createRawPixelsStore", ok))
              /\ IF ok
                 THEN /\ store' = "created"
                      /\ storesCreated' = storesCreated + 1
                      /\ pc' = "setPixelsId"
                      /\ UNCHANGED result
                 ELSE /\ result' = Raise("RemoteError")      \* line 149
                      /\ pc' = "done"
                      /\ UNCHANGED << store, storesCreated >>
    /\ UNCHANGED << py3, img, readerVars, remoteVars, args, c, tile, planes,
                    storesClosed, numpy_image, lastOp >>

\* variant without the finally clause: the error path skips the close
AfterError_noFinally == "rescale"

\* variant that handles the error inside the loop and goes on fetching
AfterError_inLoop == "fetch"

\* where read_planes goes when the try block raises, lines 173-176
AfterError == "finally"

\* variant of lines 150-153 that goes on to the loop when setPixelsId
\* has failed
setPixelsId_ignoresFailure ==
    /\ pc = "setPixelsId"
    /\ \E ok \in BOOLEAN :
         /\ log' = Append(log, Call("setPixelsId", ok))
         /\ IF ok
            THEN /\ store' = "ready"
                 /\ pc' = "fetch"
            ELSE /\ pc' = "fetch"
                 /\ UNCHANGED store
    /\ planes' = << >>
    /\ numpy_image' = NoneImage
    /\ UNCHANGED << py3, img, readerVars, remoteVars, args, c, tile, channels,
                    storesCreated, storesClosed, lastOp, result >>

\* lines 150-153
setPixelsId ==
    /\ pc = "setPixelsId"
    /\ \E ok \in BOOLEAN :
         /\ log' = Append(log, Call("setPixelsId", ok))
         /\ IF ok
            THEN /\ store' = "ready"
                 /\ pc' = "fetch"
            ELSE /\ pc' = AfterError
                 /\ UNCHANGED store
    /\ planes' = << >>
    /\ numpy_image' = NoneImage
    /\ UNCHANGED << py3, img, readerVars, remoteVars, args, c, tile, channels,
                    storesCreated, storesClosed, lastOp, result >>

\* the channel argument of getPlane / getTile in the iteration for
\* `channel`, lines 158 and 161-162: the code passes c, not channel
FetchChannel(channel) == c

\* what the server can return for a fetch
FetchOutcomes == {"fail", "ok", "short", "long"}

\* variant of lines 155-162 that always takes the whole plane's size
Window_plane(tl) == << 0, 0, width, height >>

\* the window a fetch asks for: the tile, or the whole plane
Window(tl) == IF tl = << >> THEN << 0, 0, width, height >> ELSE tl

\* the buffer the server returns for channel src under outcome o
Reply(src, o) ==
    LET win == Window(tile)
        buf == ServerBuffer(img.ptype, args.z, src, args.t,
                            win[1], win[2], win[3], win[4])
    IN  CASE o = "ok"    -> buf
          [] o = "short" -> SubSeq(buf, 1, Len(buf) - 1)
          [] o = "long"  -> Append(buf, 0)
          [] OTHER       -> << >>

\* what read_planes returns from the try block, lines 169-172
Stack(ps) == IF c = None THEN [dims |-> 3, data |-> dstack(ps)]
             ELSE [dims |-> 2, data |-> ps[1]]

\* one iteration of the loop, lines 154-168, and lines 169-172 after the
\* last one.  The server answers a fetch for channel None with the data of
\* some channel of the image, or fails.
fetch ==
    /\ pc = "fetch"
    /\ Len(planes) < Len(channels)
    /\ LET channel == channels[Len(planes) + 1]
           fc      == FetchChannel(channel)
           sizeX   == Window(tile)[3]
           sizeY   == Window(tile)[4]
           op      == IF tile = << >> THEN "getPlane" ELSE "getTile"
           pt      == PIXEL_TYPES(img.ptype)
       IN  \E o \in FetchOutcomes :
           \E src \in (IF fc = None THEN 0..(img.size_c - 1) ELSE {fc}) :
             LET raw == Reply(src, o)
             IN  /\ log' = Append(log,
                              Fetch(op, args.z, fc, args.t, tile, o # "fail",
                                    IF o = "fail" THEN None ELSE Len(raw)))
                 /\ IF o # "fail" /\ UnpackOk(raw, sizeY * sizeX, pt.bw)
                    THEN LET plane == resize(unpack(raw, sizeY * sizeX, pt.bw,
                                                    pt.signed), sizeY, sizeX)
                             ps == Append(planes, plane)
                         IN  /\ planes' = ps
                             /\ IF Len(ps) = Len(channels)
                                THEN /\ numpy_image' = Stack(ps)
                                     /\ pc' = "finally"
                                ELSE /\ pc' = "fetch"
                                     /\ UNCHANGED numpy_image
                    ELSE /\ pc' = AfterError
                         /\ UNCHANGED << planes, numpy_image >>
    /\ UNCHANGED << py3, img, readerVars, remoteVars, args, c, tile, channels,
                    store, storesCreated, storesClosed, lastOp, result >>

\* variant of the finally clause that also closes the session
close_store_andSession ==
    /\ pc = "finally"
    /\ store' = "closed"
    /\ storesClosed' = storesClosed + 1
    /\ log' = Append(log, Call("close", TRUE))
    /\ sessionClosed' = TRUE
    /\ pc' = "rescale"
    /\ UNCHANGED << py3, img, readerVars, clientsCreated, joinCalls, args, c,
                    tile, channels, planes, storesCreated, numpy_image,
                    lastOp, result >>

\* the finally clause, line 176
close_store ==
    /\ pc = "finally"
    /\ store' = "closed"
    /\ storesClosed' = storesClosed + 1
    /\ log' = Append(log, Call("close", TRUE))
    /\ pc' = "rescale"
    /\ UNCHANGED << py3, img, readerVars, remoteVars, args, c, tile, channels,
                    planes, storesCreated, numpy_image, lastOp, result >>

(* --------------------------- rescale and return ------------------------ *)

\* variant of line 235 that divides by max - min of a signed range
Quot_span(v, m) == IF v < 0 THEN << v, 2 * m + 1 >> ELSE << v, m >>

\* the float v / m, kept as the pair of its numerator and denominator
Quot(v, m) == << v, m >>

\* numpy_image.astype(numpy.float32) / float(max_value), lines 234-235
Rescaled(image, max_value) ==
    IF image.dims = 2
    THEN [image EXCEPT !.data =
            [r \in 1..Len(image.data) |->
               [q \in 1..Len(image.data[r]) |->
                  Quot(image.data[r][q], max_value)]]]
    ELSE [image EXCEPT !.data =
            [r \in 1..Len(image.data) |->
               [q \in 1..Len(image.data[r]) |->
                  [k \in 1..Len(image.data[r][q]) |->
                     Quot(image.data[r][q][k], max_value)]]]]

\* read(), lines 227-238, after read_planes has returned
rescale ==
    /\ pc = "rescale"
    /\ LET max_value == PIXEL_TYPES(img.ptype).range[2]      \* line 230
       IN  IF args.rescale /\ numpy_image.dims = 0
           THEN result' = Raise("AttributeError: astype")    \* line 235 on None
           ELSE result' = Return(IF args.rescale
                                 THEN Rescaled(numpy_image, max_value)
                                 ELSE numpy_image,
                                 args.wants_max_intensity,
                                 IF args.wants_max_intensity
                                 THEN max_value ELSE 0)
    /\ pc' = "done"
    /\ UNCHANGED << py3, img, readerVars, remoteVars, callVars, log, lastOp >>

(* ------------------------------ the system ----------------------------- *)

\* the values a caller passes for c and index
OptChannels == {None} \cup (0..MaxC)

\* the values a caller passes for index
OptIndex == {None, MaxC - 1}

\* the server's answers that init_reader can see
Answers == IF session \/ client THEN {"ok"} ELSE InitOutcomes

Read ==
    \E c0 \in OptChannels, index \in OptIndex, z \in 0..MaxZ, t \in 0..MaxT,
       rs \in BOOLEAN, wm \in BOOLEAN, XYWH \in Regions, o \in Answers :
        read(c0, z, t, index, rs, wm, XYWH, o)

Next ==
    \/ Read
    \/ createRawPixelsStore
    \/ setPixelsId
    \/ fetch
    \/ close_store
    \/ rescale
    \/ close
    \/ __enter__
    \/ __exit__
    \/ Continue

Spec == Init /\ [][Next]_vars

(* ------------------------------ properties ----------------------------- *)

IsFetch(e) == e.op \in {"getPlane", "getTile"}
Fetches == SelectSeq(log, IsFetch)
ReadDone == lastOp = "read" /\ pc = "done"
Called(op) == \E i \in 1..Len(log) : log[i].op = op

\* the exceptions read() raises before it calls read_planes
EarlyErrors == {"ClientError", "Couldn't connect to OMERO server",
                "Image Id not found on the server",
                "AttributeError: getSizeT", "TypeError",
                "Couldn't retrieve a plane from OMERO image.",
                "AssertionError"}
PassedValidation ==
    /\ lastOp = "read"
    /\ pc # "idle"
    /\ pc = "done" => result.err \notin EarlyErrors

\* the sample of channel ch that belongs at row r, column q of the window
ExpectedSample(ch, r, q) ==
    LET win == Window(tile)
        v   == ServerSample(img.ptype, args.z, ch, args.t,
                            (win[2] + r - 1) * ImgW + win[1] + q - 1)
    IN  IF args.rescale THEN Quot(v, PIXEL_TYPES(img.ptype).range[2]) ELSE v

\* C1: a read() with c and index unset whose fetches all succeed issues
\* exactly size_c fetches, the k-th for channel k with the requested z and t,
\* and position k of the result's trailing axis holds channel k's data
C1_MultichannelFetches ==
    (ReadDone /\ args.c = None /\ args.index = None
       /\ result.kind = "return" /\ result.image.dims = 3)
    => /\ Len(Fetches) = img.size_c
       /\ \A k \in 1..Len(Fetches) :
            /\ Fetches[k].c = k - 1
            /\ Fetches[k].z = args.z
            /\ Fetches[k].t = args.t
       /\ \A r \in 1..Len(result.image.data) :
            \A q \in 1..Len(result.image.data[r]) :
              \A k \in 1..Len(result.image.data[r][q]) :
                result.image.data[r][q][k] = ExpectedSample(k - 1, r, q)

\* C2: when a channel's fetch fails, read() raises an error that carries
\* the failing (z, c, t); it does not return
C2_FetchFailureRaises ==
    \A i \in 1..Len(log) :
      (ReadDone /\ IsFetch(log[i]) /\ ~log[i].ok)
      => /\ result.kind = "raise"
         /\ result.coord = << log[i].z, log[i].c, log[i].t >>

\* C3 as stated: every read() that passes validation acquires exactly one
\* raw pixels store and closes it exactly once; none is open between reads
C3_EveryValidatedReadAcquires ==
    /\ (ReadDone /\ PassedValidation)
       => storesCreated = 1 /\ storesClosed = 1
    /\ pc \in {"idle", "done"} => store \notin {"created", "ready"}

\* C3 amended: a read() acquires at most one raw pixels store, exactly one
\* when createRawPixelsStore succeeds; every store acquired is closed
\* exactly once before read() ends, and none is open between reads
C3_StoreClosedOnce ==
    /\ storesCreated <= 1
    /\ storesClosed <= storesCreated
    /\ (\E i \in 1..Len(log) : log[i].op = "createRawPixelsStore" /\ log[i].ok)
       <=> storesCreated = 1
    /\ pc \in {"idle", "done"}
       => /\ store \notin {"created", "ready"}
          /\ storesClosed = storesCreated
          /\ Len(SelectSeq(log, LAMBDA e : e.op = "close")) = storesCreated

\* C3 witness: the second of two channel fetches failed and the store was
\* closed once
C3_Witness ==
    /\ ReadDone
    /\ Len(Fetches) = 2
    /\ Fetches[1].ok /\ ~Fetches[2].ok
    /\ storesCreated = 1 /\ storesClosed = 1 /\ store = "closed"

\* some requested index is not below the image's size on its axis
OutOfRange ==
    \/ args.t >= img.size_t
    \/ (c # None /\ c >= img.size_c)
    \/ args.z >= img.size_z

\* C4: on a connected reader a read() with t, c or z out of range raises,
\* returns nothing, acquires no raw pixels store and issues no fetch
C4_OutOfRangeFails ==
    (lastOp = "read" /\ pixels /\ OutOfRange)
    => /\ pc = "done"
       /\ result.kind = "raise"
       /\ storesCreated = 0
       /\ ~Called("createRawPixelsStore")
       /\ Fetches = << >>

\* C4 witness: only t is out of range and the read() was refused
C4_Witness ==
    /\ ReadDone /\ pixels
    /\ args.t >= img.size_t /\ args.z < img.size_z
    /\ c # None /\ c < img.size_c
    /\ result.err = "Couldn't retrieve a plane from OMERO image."

\* C5: after close() on a connected reader every read() fails with
\* ReaderClosed, acquires no raw pixels store and issues no fetch
C5_ReadAfterCloseFails ==
    (ReadDone /\ sessionClosed /\ pixels)
    => /\ result.kind = "raise"
       /\ result.err = "ReaderClosed"
       /\ storesCreated = 0
       /\ Fetches = << >>

\* C6: the session is joined at most once; once a client exists no later
\* read() creates a client or joins again
C6_JoinAtMostOnce ==
    /\ [](joinCalls <= 1 /\ clientsCreated <= 1)
    /\ [][client => (clientsCreated' = clientsCreated
                     /\ joinCalls' = joinCalls)]_vars

\* C6 witness: a read() on a reader whose join had failed made no call
C6_Witness ==
    /\ ReadDone
    /\ client /\ ~session
    /\ joinCalls = 1
    /\ log = << >>

\* C7: on a connected reader both close() and leaving a with block call
\* closeSession and leave the remote session closed
C7_CloseAndExitRelease ==
    (pc = "done" /\ lastOp \in {"close", "exit"} /\ session /\ pixels)
    => /\ sessionClosed
       /\ Called("closeSession")

\* C8: while no session is established after a failed join, every read()
\* ends in the connection failure, without image lookup, store or fetch
C8_ConnectionFailureRepeats ==
    (ReadDone /\ client /\ ~session)
    => /\ result.kind = "raise"
       /\ result.err = "Couldn't connect to OMERO server"
       /\ ~Called("getImages")
       /\ storesCreated = 0
       /\ Fetches = << >>

\* C9: once a fetch has failed no further fetch is issued in that read()
C9_NoFetchAfterFailure ==
    \A i, j \in 1..Len(log) :
      (i < j /\ IsFetch(log[i]) /\ ~log[i].ok) => ~IsFetch(log[j])

\* C9 witness: the first fetch of a multichannel read() failed and the
\* read() ended with that single fetch
C9_Witness ==
    /\ ReadDone
    /\ Len(channels) >= 2
    /\ Len(Fetches) = 1
    /\ ~Fetches[1].ok

\* width * height * byte_width of the plane or tile of this read()
ExpectedLen == Window(tile)[3] * Window(tile)[4] * PIXEL_TYPES(img.ptype).bw

\* C10: a buffer whose length is not width * height * byte_width makes
\* read() raise TruncatedBuffer; nothing is returned
C10_TruncatedBufferRaises ==
    \A i \in 1..Len(log) :
      (ReadDone /\ IsFetch(log[i]) /\ log[i].ok /\ log[i].len # ExpectedLen)
      => /\ result.kind = "raise"
         /\ result.err = "TruncatedBuffer"

\* C11: when read() fails index validation, the failure the caller gets
\* names an axis that is out of range, its requested value and its size
C11_FailureNamesAxis ==
    (ReadDone /\ pixels /\ OutOfRange /\ ~CompareRaises(c))
    => /\ result.kind = "raise"
       /\ Len(result.named) = 3
       /\ \/ /\ result.named = << "T", args.t, img.size_t >>
             /\ args.t >= img.size_t
          \/ /\ result.named = << "C", c, img.size_c >>
             /\ c # None /\ c >= img.size_c
          \/ /\ result.named = << "Z", args.z, img.size_z >>
             /\ args.z >= img.size_z

\* the channel the caller asked for: c, or index when c is unset
Requested == IF args.c # None THEN args.c ELSE args.index

DomainMax(name) ==
    CASE name = "int8"   -> 127
      [] name = "uint8"  -> 255
      [] name = "int16"  -> 32767
      [] name = "uint16" -> 65535

\* the native sample of channel ch at row r, column q of the window
NativeSample(ch, r, q) ==
    ServerSample(img.ptype, args.z, ch, args.t,
                 (Window(tile)[2] + r - 1) * ImgW + Window(tile)[1] + q - 1)

\* C13: without rescale a successful read() returns the decoded native
\* values unchanged; with wants_max_intensity the result is the pair of the
\* array and the pixel type's domain maximum, rescaled or not, and without
\* it the array alone
C13_ReturnShape ==
    (ReadDone /\ result.kind = "return" /\ numpy_image.dims # 0)
    => /\ ~args.rescale
          => /\ result.image = numpy_image
             /\ \A r \in 1..Len(result.image.data) :
                  \A q \in 1..Len(result.image.data[r]) :
                    IF result.image.dims = 2
                    THEN result.image.data[r][q] = NativeSample(c, r, q)
                    ELSE \A k \in 1..Len(planes) :
                           result.image.data[r][q][k] = planes[k][r][q]
       /\ result.hasMax = args.wants_max_intensity
       /\ result.hasMax => result.max = DomainMax(img.ptype)

\* C13 witness: a rescaled read() returned the pair of an array and the
\* domain maximum of a signed type
C13_Witness ==
    /\ ReadDone
    /\ result.kind = "return" /\ result.image.dims = 2
    /\ args.rescale /\ args.wants_max_intensity
    /\ img.ptype = "int8"
    /\ result.hasMax /\ result.max = 127

\* C14: with a region every fetch of the read() is a getTile for exactly
\* (x, y, w, h) and every buffer is decoded as h rows of w samples; without
\* a region every fetch is a getPlane decoded as size_y rows of size_x
\* samples; in single-channel and in multichannel mode
C14_RegionFetches ==
    lastOp = "read"
    => LET rows == IF args.XYWH = << >> THEN ImgH ELSE args.XYWH[4]
           cols == IF args.XYWH = << >> THEN ImgW ELSE args.XYWH[3]
       IN  /\ \A i \in 1..Len(Fetches) :
                IF args.XYWH = << >>
                THEN Fetches[i].op = "getPlane" /\ Fetches[i].region = << >>
                ELSE Fetches[i].op = "getTile"
                     /\ Fetches[i].region = args.XYWH
           /\ \A k \in 1..Len(planes) :
                /\ Len(planes[k]) = rows
                /\ \A r \in 1..rows :
                     /\ Len(planes[k][r]) = cols
                     /\ c # None
                        => \A q \in 1..cols :
                             planes[k][r][q] = NativeSample(c, r, q)

\* C14 witness: a multichannel read() of a tile fetched and decoded two
\* tiles
C14_Witness ==
    /\ ReadDone
    /\ args.XYWH \in Tiles
    /\ Len(planes) = 2
    /\ Len(Fetches) = 2
    /\ Fetches[2].op = "getTile"

\* C15: when the image's pixel type is not a key of PIXEL_TYPES, read()
\* fails with an error before any raw pixels store is acquired and before
\* any fetch is issued
C15_UnsupportedPixelType ==
    (lastOp = "read" /\ img.ptype \notin PixelTypeNames)
    => /\ pc \in {"read_planes", "done"}
       /\ pc = "done" => result.kind = "raise"
       /\ store = "none"
       /\ storesCreated = 0
       /\ ~Called("createRawPixelsStore")
       /\ Fetches = << >>

\* C15 witness: a read() with valid indices on a connected reader ended in
\* the failed pixel type lookup
C15_Witness ==
    /\ ReadDone
    /\ pixels /\ ~OutOfRange
    /\ img.ptype \notin PixelTypeNames
    /\ result.err = "KeyError"

\* the integer a wide number of one digit stands for
WideValue(w) == IF w.neg THEN - w.lo ELSE w.lo

\* w + 1 of a non-negative w
WideSucc(w) == IF w.lo < Base - 1 THEN WideNum(FALSE, w.hi, w.lo + 1)
                                  ELSE WideNum(FALSE, w.hi + 1, 0)

\* 2 * w of a non-negative w
WideDouble(w) == WideNum(FALSE, 2 * w.hi + (2 * w.lo) \div Base,
                         (2 * w.lo) % Base)

\* the number 2^(8w) written out for the byte widths of the registry
TwoToThe8(w) ==
    CASE w = 1 -> WideNum(FALSE, 0, 256)
      [] w = 2 -> WideNum(FALSE, 1, 0)
      [] w = 4 -> WideNum(FALSE, 65536, 0)

\* C16: for every key of PIXEL_TYPES the registered range is the one the
\* formula gives for the type's byte width w and signedness: unsigned
\* integer types have (0, 2^(8w) - 1), signed integer types have
\* (-2^(8w)/2, 2^(8w)/2 - 1), float and double have (0, 1); uint16 has
\* (0, 65535), int16 (-32768, 32767), int8 (-128, 127) and uint32
\* (0, 4294967295 = 65535 * 65536 + 65535); and the maximum a read reports
\* is the registered one whatever samples the read decoded
C16_RegisteredDomains ==
    /\ \A name \in PixelTypeNames :
         LET e  == PIXEL_TYPES_wide(name)
             lo == e.range[1]
             hi == e.range[2]
         IN  /\ ~hi.neg
             /\ e.integer /\ ~e.signed
                => /\ lo = WideNum(FALSE, 0, 0)
                   /\ WideSucc(hi) = TwoToThe8(e.bw)
             /\ e.integer /\ e.signed
                => /\ lo = WideNeg(WideSucc(hi))
                   /\ WideDouble(WideSucc(hi)) = TwoToThe8(e.bw)
             /\ ~e.integer
                => /\ lo = WideNum(FALSE, 0, 0)
                   /\ hi = WideNum(FALSE, 0, 1)
    /\ PIXEL_TYPES_wide("uint16").range
         = << WideNum(FALSE, 0, 0), WideNum(FALSE, 0, 65535) >>
    /\ PIXEL_TYPES_wide("int16").range
         = << WideNum(TRUE, 0, 32768), WideNum(FALSE, 0, 32767) >>
    /\ PIXEL_TYPES_wide("int8").range
         = << WideNum(TRUE, 0, 128), WideNum(FALSE, 0, 127) >>
    /\ PIXEL_TYPES_wide("uint32").range
         = << WideNum(FALSE, 0, 0), WideNum(FALSE, 65535, 65535) >>
    /\ \A name \in SupportedTypes :
         PIXEL_TYPES(name).range
           = << WideValue(PIXEL_TYPES_wide(name).range[1]),
                WideValue(PIXEL_TYPES_wide(name).range[2]) >>
    /\ (ReadDone /\ result.kind = "return" /\ result.hasMax)
       => result.max = WideValue(PIXEL_TYPES_wide(img.ptype).range[2])

\* C16 witness: a read() of a uint16 image whose decoded samples are not
\* the maximum reported 65535 as the maximum
C16_Witness ==
    /\ ReadDone
    /\ result.kind = "return" /\ result.hasMax
    /\ img.ptype = "uint16"
    /\ result.max = 65535
    /\ numpy_image.dims = 2
    /\ \A r \in 1..Len(numpy_image.data) :
         \A q \in 1..Len(numpy_image.data[r]) :
           numpy_image.data[r][q] # 65535

ReusedSession ==
    /\ lastOp = "read"
    /\ pixels /\ session /\ ~sessionClosed
    /\ \A i \in 1..Len(log) :
         log[i].op \notin {"omero.client", "joinSession",
                           "getContainerService", "getImages"}

\* the arguments of the read() are valid for the image
ValidArguments ==
    /\ ~OutOfRange
    /\ ~CompareRaises(c)
    /\ args.XYWH # BadXYWH

\* every remote call of the read() was answered, every buffer in full
ServerAnswered ==
    \A i \in 1..Len(log) :
      /\ log[i].ok
      /\ IsFetch(log[i]) => log[i].len = ExpectedLen

\* C18: no step of a read() on a connected reader, failing or not, changes
\* client, session, container service, image descriptor, pixels, cached
\* width and height, or closes the session, creates a client or joins a
\* session; and on a connected reader of an image with a registered pixel
\* type a read() with valid arguments that the server answers makes no
\* connection call and returns an array
C18_FailedReadKeepsConnection ==
    /\ [][(pixels /\ lastOp' = "read")
          => UNCHANGED << readerVars, remoteVars >>]_vars
    /\ [](( /\ ReadDone /\ ReusedSession /\ ValidArguments
            /\ img.ptype \in SupportedTypes /\ ServerAnswered)
          => /\ result.kind = "return"
             /\ result.image.dims # 0
             /\ clientsCreated = 1 /\ joinCalls = 1)

\* C18 witness: a read() on a connected reader failed in a fetch after its
\* store was acquired, and the reader still holds its open session
C18_Witness ==
    /\ ReadDone /\ ReusedSession
    /\ ValidArguments
    /\ args.rescale /\ result.kind = "raise"
    /\ \E i \in 1..Len(log) : IsFetch(log[i]) /\ ~log[i].ok
    /\ client /\ width # None /\ height # None

\* the step issues a fetch: it appends a getPlane or getTile to the log
IssuesFetch ==
    /\ Len(log') = Len(log) + 1
    /\ IsFetch(log'[Len(log')])

\* C19: every fetch is issued on a raw pixels store that is open and whose
\* pixels id has been set: the step that issues it starts with the store
\* ready and leaves it open, every fetch of the log comes after a
\* successful createRawPixelsStore and a successful setPixelsId and before
\* any close of the store, and at most one store is open at any time
C19_FetchOnReadyStore ==
    /\ [][IssuesFetch => (store = "ready" /\ store' = "ready")]_vars
    /\ [](/\ pc = "fetch" => store = "ready"
          /\ \A i \in 1..Len(log) :
               IsFetch(log[i])
               => /\ \E j \in 1..(i - 1) :
                       /\ log[j].op = "setPixelsId" /\ log[j].ok
                       /\ \E k \in 1..(j - 1) :
                            log[k].op = "createRawPixelsStore" /\ log[k].ok
                  /\ \A m \in 1..(i - 1) : log[m].op # "close"
          /\ storesClosed <= storesCreated
          /\ storesCreated - storesClosed <= 1
          /\ (storesCreated - storesClosed = 1)
               <=> store \in {"created", "ready"})

\* C19 witness: a read() fetched twice on its one store and closed it
C19_Witness ==
    /\ ReadDone
    /\ Len(Fetches) >= 2
    /\ \A i \in 1..Len(Fetches) : Fetches[i].ok
    /\ store = "closed"
    /\ storesCreated = 1 /\ storesClosed = 1

\* the reader holds nothing of a connection
Unconnected ==
    /\ ~client /\ ~session /\ ~container_service /\ ~omero_image /\ ~pixels
    /\ width = None /\ height = None
    /\ ~sessionClosed /\ clientsCreated = 0 /\ joinCalls = 0

\* C20: close() makes the one call closeSession when the reader holds a
\* client object, also one whose joinSession failed, and no call otherwise;
\* it changes no field of the reader, so a reader without client is
\* Unconnected before and after it, and a read() on a reader without client
\* starts by creating the client
C20_CloseFollowsClient ==
    /\ [](~client => Unconnected)
    /\ []((pc = "done" /\ lastOp = "close")
          => /\ client => log = << Call("closeSession", TRUE) >>
             /\ ~client => (log = << >> /\ Unconnected))
    /\ [][(pc = "idle" /\ lastOp' = "close")
          => /\ UNCHANGED << readerVars, clientsCreated, joinCalls >>
             /\ ~client => UNCHANGED sessionClosed
             /\ client => sessionClosed']_vars
    /\ [][(pc = "idle" /\ lastOp' = "read" /\ ~client)
          => /\ Len(log') >= 1
             /\ log'[1].op = "omero.client"
             /\ client' <=> log'[1].ok]_vars

\* C20 witness: close() on a reader whose joinSession had failed called
\* closeSession
C20_Witness ==
    /\ pc = "done" /\ lastOp = "close"
    /\ client /\ ~session /\ ~pixels
    /\ joinCalls = 1
    /\ log = << Call("closeSession", TRUE) >>

====
